---- MODULE Spec2Model ----
(***************************************************************************)
(* A model of the vue-pdf components: the useResolver state machine        *)
(* (shared/hooks), the Document component (Document.tsx) and the Page      *)
(* with its layers (Page.tsx, PageCanvas.tsx, PageSVG, TextLayer.tsx,      *)
(* Outline.tsx).                                                           *)
(*                                                                         *)
(* The components are written against the hook contract: useEffect(f,      *)
(* deps) runs f after a render whose deps differ from those of the         *)
(* previous render (and after the first one), running the cleanup f        *)
(* returned before; all cleanups of a commit run before its effect         *)
(* bodies, both in declaration order; a dispatch schedules a new render.   *)
(* A render reads the props and the resolver states as they are when it    *)
(* runs; its effects and callbacks see the values that render read.        *)
(*                                                                         *)
(* A behaviour is about one component alone, its props given by the host   *)
(* (Spec), or about a Document with a Page in its slot and the PageCanvas  *)
(* of that Page (SpecTree). In a commit the effects of a child run before  *)
(* those of its parent.                                                    *)
(*                                                                         *)
(* JavaScript values are records [kind, id, of]: kind tells undefined,     *)
(* false, null and the objects apart, id is the object's identity (the     *)
(* number of the task that produced it) and of the file it derives from;   *)
(* a page is told by the id of its document and, in of, its page number.   *)
(***************************************************************************)
EXTENDS Integers, Sequences, FiniteSets, TLC

VARIABLES
    \* ---- a lone resolver, driven by arbitrary actions (shared/hooks)
    state,        \* the ref of useReducer: [value, error]
    prevState,    \* the state the last dispatch was applied to
    lastAction,   \* the action of the last dispatch
    \* ---- the props of a Page and what it renders (Page.tsx, renderContent)
    pProps,       \* the props merged with the Document context
    pShown,       \* what the last render returned, and the page value it read
    \* ---- the internal links of a Document (Document.tsx, scrollPageIntoView)
    onItemClick,  \* was the Document given onItemClick
    pages,        \* pages.value: pageIndex -> the element registered (0: a hole)
    linked,       \* the last link followed, the element registered at its pageIndex
                  \*   then, and what following it did
    \* ---- the Document component (Document.tsx)
    life,         \* "new" (not rendered yet), "mounted" or "unmounted"
    file,         \* the file prop
    options,      \* the options prop: the identity of the object, 0 for none
    sourceState,  \* useResolver<Source | null>()
    pdfState,     \* useResolver<PDFDocumentProxy>()
    rendered,     \* what the last render read, and the content it returned
    sourceTasks,  \* the findDocumentSource() promises not settled yet
    loadTasks,    \* the pdfjs loading tasks whose promise has not settled yet
    curSourceTask, \* the cancellable the source effect's cleanup holds (0: none)
    curLoadTask,  \* the loading task loadDocument's cleanup holds (0: none)
    nextId,       \* the identity of the next object created
    changes,      \* how many times the host changed a prop
    calls,        \* the host callbacks invoked: <<callback, its argument>> -> times
    sourceSetBy,  \* the resolution whose outcome the source resolver holds (0: none)
    pdfSetBy,     \* the loading task whose outcome the pdf resolver holds (0: none)
    late,         \* <<resolver, task>>: dispatches by a task that was no longer the current one
    swallowed,    \* <<resolver, task>>: outcomes of cancelled tasks, never dispatched
    outcome,      \* <<resolver, task>> -> the outcome dispatched: [result |-> "resolved"
                  \*   or "rejected", v |-> the value or the error]
    \* ---- a Page, an Outline, a TextLayer or a PageSVG
    comp,         \* the component this behaviour is about
    cLife,        \* "absent", "new", "mounted" or "unmounted"
    cInput,       \* its props: [obj |-> the pdf (Page, Outline) or the page (TextLayer,
                  \*   PageSVG), n |-> pageNumber (Page; 0: none) or the scale (PageSVG)]
    cState,       \* its useResolver()
    cRendered,    \* what its last render read
    cTasks,       \* its requests to the engine whose promise has not settled yet
    cCur,         \* the cancellable its load effect's cleanup holds (0: none)
    cSetBy,       \* the request whose outcome its resolver holds, and its input
    cChanges,     \* how many times its props changed
    issued,       \* the requests issued: the object asked, and what the Document's
                  \*   pdf resolver held then
    \* ---- the PageCanvas under a Page (Page/PageCanvas.tsx)
    kLife,        \* "absent", "mounted" or "unmounted"
    kKey,         \* the key the Page rendered it with
    kPage,        \* the page of its context at its last render
    kTasks,       \* the render tasks whose promise has not settled yet
    kCur,         \* the render task the cleanup of drawPageOnCanvas holds (0: none)
    canvas,       \* the canvas element: "none", "hidden" (sized, being drawn), "shown"
                  \*   or "released" (width and height zeroed)
    kStarts,      \* the render tasks started: the page drawn, and what the Page's
                  \*   resolver held then
    kCleanups,    \* the cleanups run: "cancel" (the render task) or "release" (the
                  \*   canvas), and whether the instance had started a render task
    kSettled      \* the render tasks whose promise settled: "completed", "failed" or
                  \*   "cancelled", and the error it rejected with

reducerVars == <<state, prevState, lastAction>>
pageVars == <<pProps, pShown>>
linkVars == <<onItemClick, pages, linked>>
\* the variables of the behaviours about a resolver, a Page's content or the links alone
otherVars == <<reducerVars, pageVars, linkVars>>
documentVars == <<life, file, options, sourceState, pdfState, rendered, sourceTasks,
                  loadTasks, curSourceTask, curLoadTask, changes, sourceSetBy, pdfSetBy>>
docVars == <<documentVars, nextId, calls, late, swallowed, outcome>>
layerVars == <<comp, cLife, cInput, cState, cRendered, cTasks, cCur, cSetBy, cChanges,
               issued>>
canvasVars == <<kLife, kKey, kPage, kTasks, kCur, canvas, kStarts, kCleanups, kSettled>>
vars == <<otherVars, docVars, layerVars, canvasVars>>

--------------------------------------------------------------------------
(* Values *)

NoFile == "-"

Val(kind, id, of) == [kind |-> kind, id |-> id, of |-> of]

Undefined == Val("undefined", 0, NoFile)
False == Val("false", 0, NoFile)
Null == Val("null", 0, NoFile)

\* JavaScript truthiness of a modelled value
Truthy(v) == v.kind \notin {"undefined", "false", "null"}

--------------------------------------------------------------------------
(* shared/hooks: reducer, useResolver, useReducer *)

MaxValue == 5
MaxError == 4

ResolveAction(v) == [type |-> "RESOLVE", value |-> v, error |-> Undefined]
RejectAction(e) == [type |-> "REJECT", value |-> Undefined, error |-> e]
ResetAction == [type |-> "RESET", value |-> Undefined, error |-> Undefined]
\* an action whose type is none of the three (the reducer's default branch)
OtherAction(v) == [type |-> "OTHER", value |-> v, error |-> Undefined]

ResetState == [value |-> Undefined, error |-> Undefined]

reducer_keeps(s, action) ==
    CASE action.type = "RESOLVE" -> [value |-> action.value, error |-> Undefined]
      [] action.type = "REJECT" -> [value |-> s.value, error |-> action.error]
      [] action.type = "RESET" -> [value |-> Undefined, error |-> Undefined]
      [] OTHER -> s

reducer_stale(s, action) ==
    CASE action.type = "RESOLVE" -> [value |-> action.value, error |-> s.error]
      [] action.type = "REJECT" -> [value |-> False, error |-> action.error]
      [] action.type = "RESET" -> [value |-> Undefined, error |-> Undefined]
      [] OTHER -> s

reducer_reset(s, action) ==
    CASE action.type = "RESOLVE" -> [value |-> action.value, error |-> Undefined]
      [] action.type = "REJECT" -> [value |-> False, error |-> action.error]
      [] action.type = "RESET" -> [value |-> Undefined, error |-> s.error]
      [] OTHER -> s

reducer(s, action) ==
    CASE action.type = "RESOLVE" -> [value |-> action.value, error |-> Undefined]
      [] action.type = "REJECT" -> [value |-> False, error |-> action.error]
      [] action.type = "RESET" -> [value |-> Undefined, error |-> Undefined]
      [] OTHER -> s

\* useResolver: useReducer(reducer, {value: undefined, error: undefined})
useResolver == ResetState

TestValues == {Val("value", i, NoFile) : i \in 1..MaxValue}
TestErrors == {Val("error", i, NoFile) : i \in 1..MaxError}
TestActions ==
    {ResolveAction(v) : v \in TestValues \cup {Null}}
        \cup {RejectAction(e) : e \in TestErrors}
        \cup {ResetAction}
        \cup {OtherAction(v) : v \in TestValues}

\* dispatch of useReducer: state.value = reducer(state.value, action)
Dispatch(action) ==
    /\ prevState' = state
    /\ lastAction' = action
    /\ state' = reducer(state, action)

\* a prop that was not passed (undefined)
Absent == -1

\* the props of a Page tried: pageNumber and pageIndex, the pdf of the context,
\* renderMode, renderTextLayer and renderAnnotationLayer
PageProps ==
    [pageNumber : {Absent, 0, 1, 2},
     pageIndex : {Absent, 0, 1},
     pdf : {Val("pdf", 1, "host"), False},
     renderMode : {"absent", "none", "svg", "canvas", "other"},
     renderTextLayer : {"absent", "true", "false"},
     renderAnnotationLayer : {"absent", "true", "false"}]

NoProps ==
    [pageNumber |-> Absent, pageIndex |-> Absent, pdf |-> False, renderMode |-> "absent",
     renderTextLayer |-> "absent", renderAnnotationLayer |-> "absent"]

NoLayers(content, page) ==
    [content |-> content, main |-> "none", text |-> FALSE, annotations |-> FALSE,
     page |-> page]

\* before the first render
NotShown == NoLayers("none", Undefined)

MaxPageIndex == 1
MaxElement == 2

\* pages.value = new Array(pdf.numPages): every index a hole
NoPages == [i \in 0..MaxPageIndex |-> 0]

\* onItemClick was not called
NoArgs == [dest |-> "none", pageIndex |-> 0, pageNumber |-> 0]

\* no link followed yet
NoLink ==
    [dest |-> "none", pageIndex |-> 0, pageNumber |-> 0, registered |-> 0,
     clicked |-> NoArgs, scrolled |-> 0, warned |-> FALSE]

\* a Document whose links are not followed
LinksAbsent == onItemClick = FALSE /\ pages = NoPages /\ linked = NoLink

NotRendered ==
    [file |-> NoFile, options |-> 0, source |-> Undefined, sourceError |-> Undefined,
     pdf |-> Undefined, pdfError |-> Undefined, content |-> "none"]

\* the Document before its first render
DocFields ==
    /\ file = NoFile
    /\ options = 0
    /\ sourceState = useResolver
    /\ pdfState = useResolver
    /\ rendered = NotRendered
    /\ sourceTasks = {}
    /\ loadTasks = {}
    /\ curSourceTask = 0
    /\ curLoadTask = 0
    /\ nextId = 1
    /\ changes = 0
    /\ calls = <<>>
    /\ sourceSetBy = 0
    /\ pdfSetBy = 0
    /\ late = {}
    /\ swallowed = {}
    /\ outcome = <<>>

DocNew == life = "new" /\ DocFields

\* a behaviour without a Document
DocAbsent == life = "absent" /\ DocFields

NeverRendered ==
    [obj |-> Undefined, n |-> 0, reg |-> 0, value |-> Undefined, error |-> Undefined]

\* a Page, Outline, TextLayer or PageSVG before its first render; n is the page
\* number the host will pass
LayerFields(n) ==
    /\ cInput = [obj |-> Undefined, n |-> n, reg |-> 0]
    /\ cState = useResolver
    /\ cRendered = NeverRendered
    /\ cTasks = {}
    /\ cCur = 0
    /\ cSetBy = [id |-> 0, obj |-> Undefined, n |-> 0]
    /\ cChanges = 0
    /\ issued = {}

\* a behaviour of the Document alone
LayerAbsent == comp = "Document" /\ cLife = "absent" /\ LayerFields(0)

\* no PageCanvas yet
CanvasAbsent ==
    /\ kLife = "absent"
    /\ kKey = 0
    /\ kPage = Undefined
    /\ kTasks = {}
    /\ kCur = 0
    /\ canvas = "none"
    /\ kStarts = {}
    /\ kCleanups = {}
    /\ kSettled = {}

ReducerInit ==
    /\ DocNew
    /\ LayerAbsent
    /\ CanvasAbsent
    /\ state = useResolver
    /\ prevState = useResolver
    /\ lastAction = ResetAction
    /\ pProps = NoProps
    /\ pShown = NotShown
    /\ LinksAbsent

ReducerNext ==
    \E a \in TestActions :
        Dispatch(a) /\ UNCHANGED <<pageVars, linkVars, docVars, layerVars, canvasVars>>

SpecReducer == ReducerInit /\ [][ReducerNext]_vars

--------------------------------------------------------------------------
(* C1: the reducer's result depends only on the action: RESOLVE(v) yields
   {value: v, error: undefined}, REJECT(e) yields {value: false, error: e},
   RESET yields {value: undefined, error: undefined}; useResolver starts at
   {value: undefined, error: undefined}; an action of any other type leaves
   the state unchanged. *)
C1_ReducerByAction ==
    /\ lastAction.type = "RESOLVE" =>
            state = [value |-> lastAction.value, error |-> Undefined]
    /\ lastAction.type = "REJECT" =>
            state = [value |-> False, error |-> lastAction.error]
    /\ lastAction.type = "RESET" =>
            state = [value |-> Undefined, error |-> Undefined]
    /\ lastAction.type \notin {"RESOLVE", "REJECT", "RESET"} => state = prevState
    /\ useResolver = [value |-> Undefined, error |-> Undefined]

\* a RESOLVE applied to an errored state: the previous error must not survive
C1_Witness ==
    /\ lastAction.type = "RESOLVE"
    /\ prevState.value = False
    /\ prevState.error \in TestErrors
    /\ state.value \in TestValues

--------------------------------------------------------------------------
(* Document.tsx: props, promises and the pieces of a render *)

MaxChanges == 1

\* the file props tried: none, a URL string, a Blob, a value that is no file
Files == {NoFile, "url", "blob", "bad"}

Bump(c, key) == IF key \in DOMAIN c THEN [c EXCEPT ![key] = @ + 1] ELSE c @@ (key :> 1)
Count(c, key) == IF key \in DOMAIN c THEN c[key] ELSE 0

findDocumentSource_lenient(f, id) ==
    CASE f = NoFile -> {[ok |-> TRUE, v |-> Null]}
      [] f = "blob" -> {[ok |-> TRUE, v |-> Val("source", id, f)],
                        [ok |-> FALSE, v |-> Val("error", id, f)]}
      [] OTHER -> {[ok |-> TRUE, v |-> Val("source", id, f)]}

\* findDocumentSource: the outcomes its promise can settle with, for the task `id`
findDocumentSource(f, id) ==
    CASE f = NoFile -> {[ok |-> TRUE, v |-> Null]}
      [] f = "url" -> {[ok |-> TRUE, v |-> Val("source", id, f)]}
      [] f = "blob" -> {[ok |-> TRUE, v |-> Val("source", id, f)],
                        [ok |-> FALSE, v |-> Val("error", id, f)]}
      [] OTHER -> {[ok |-> FALSE, v |-> Val("error", id, f)]}

\* cancelRunningTask(cancellable) of make-cancellable-promise: the promise of a
\* cancelled cancellable never settles
cancelRunningTask(tasks, id) ==
    {IF t.id = id THEN [t EXCEPT !.cancelled = TRUE] ELSE t : t \in tasks}

\* the cleanup of the source effect
SourceEffectCleanup_none(tasks, id) == tasks

SourceEffectCleanup(tasks, id) == cancelRunningTask(tasks, id)

\* loadingTask.destroy()
destroy(tasks, id) ==
    {IF t.id = id THEN [t EXCEPT !.destroyed = TRUE] ELSE t : t \in tasks}

\* the cleanup loadDocument returns
LoadDocumentCleanup(tasks, id) == destroy(tasks, id)

renderContent_pdfFirst(f, pdf) ==
    IF pdf.kind \in {"undefined", "null"} THEN IF f = NoFile THEN "no-data" ELSE "loading"
    ELSE IF pdf = False THEN "error"
    ELSE "children"

\* renderContent
renderContent(f, pdf) ==
    IF f = NoFile THEN "no-data"
    ELSE IF pdf.kind \in {"undefined", "null"} THEN "loading"
    ELSE IF pdf = False THEN "error"
    ELSE "children"

SourceCallbacks_eager(c, source, sourceError) ==
    IF source = False THEN Bump(c, <<"onSourceError", sourceError>>)
    ELSE Bump(c, <<"onSourceSuccess", source>>)

\* the effect on [source]: onSourceError / onSourceSuccess
SourceCallbacks(c, source, sourceError) ==
    IF source.kind = "undefined" THEN c
    ELSE IF source = False
        THEN IF sourceError.kind = "undefined" THEN c
             ELSE Bump(c, <<"onSourceError", sourceError>>)
    ELSE Bump(c, <<"onSourceSuccess", source>>)

\* the effect on [pdf]: onLoadError / onLoadSuccess
PdfCallbacks(c, pdf, pdfError) ==
    IF pdf.kind = "undefined" THEN c
    ELSE IF pdf = False
        THEN IF pdfError.kind = "undefined" THEN c
             ELSE Bump(c, <<"onLoadError", pdfError>>)
    ELSE IF ~Truthy(pdf) THEN c
    ELSE Bump(c, <<"onLoadSuccess", pdf>>)

CallsAtLoad_before(c0, c1) == c0

\* the host callbacks invoked when loadDocument runs: its effect is declared after
\* the effect on [source], which ran on the counts c0 and left c1
CallsAtLoad(c0, c1) == c1

loadDocument_defined(source) == source.kind # "undefined"

\* loadDocument: if (!source) return; else pdfjs.getDocument(...) is called
loadDocument(source) == Truthy(source)

ResetDocumentDeps_none(r) == <<>>

\* the deps of resetDocument: [pdfDispatch, source]
ResetDocumentDeps(r) == <<r.source>>

\* the deps of loadDocument: [options, pdfDispatch, source]
LoadDocumentDeps(r) == <<r.options, r.source>>

--------------------------------------------------------------------------
(* Page.tsx, Outline.tsx, TextLayer.tsx, PageSVG: one useResolver each, reset
   and loaded by effects on the component's input *)

MaxLayerChanges == 1

Layers == {"Page", "Outline", "TextLayer", "PageSVG"}

\* what the component gets from its context: the pdf or the page
InputKind(c) == IF c \in {"Page", "Outline"} THEN "pdf" ELSE "page"

\* the props the host tries: two objects; page numbers none, 1, 2 (Page); scales
\* 1, 2 (PageSVG). reg is the identity of registerPage, which a Page gets from
\* the context of a Document and a Page alone does not get
LayerInputs(c) ==
    {[obj |-> Val(InputKind(c), i, "host"), n |-> n, reg |-> 0] :
        i \in 1..2,
        n \in CASE c = "Page" -> 0..2 [] c = "PageSVG" -> 1..2 [] OTHER -> {0}}

\* Page: useEffect(resetPage, [pageDispatch, pdf, pageIndex]);
\* Outline: [outlineDispatch, pdf]; TextLayer: [page, textContentDispatch];
\* PageSVG: [page, svgDispatch, viewport]
ResetDeps(c, in) == IF c \in {"Page", "PageSVG"} THEN <<in.obj, in.n>> ELSE <<in.obj>>

\* Page: [pageDispatch, pdf, pageIndex, pageNumber, registerPage];
\* Outline: [outlineDispatch, pdf]; TextLayer: [page, textContentDispatch];
\* PageSVG: [page, svgDispatch, viewport]
LoadDeps(c, in) ==
    CASE c = "Page" -> <<in.obj, in.n, in.reg>>
      [] c = "PageSVG" -> <<in.obj, in.n>>
      [] OTHER -> <<in.obj>>

\* loadPage: if (!pdf || !pageNumber) return
loadPage(in) == Truthy(in.obj) /\ in.n # 0

\* loadOutline: if (!pdf) return
loadOutline(in) == Truthy(in.obj)

\* loadTextContent: if (!page) return
loadTextContent(in) == Truthy(in.obj)

\* renderSVG: if (!page) return
renderSVG(in) == Truthy(in.obj)

\* does the load effect issue a request
Loads(c, in) ==
    CASE c = "Page" -> loadPage(in)
      [] c = "Outline" -> loadOutline(in)
      [] c = "TextLayer" -> loadTextContent(in)
      [] OTHER -> renderSVG(in)

\* the cleanup of the load effect: () => cancelRunningTask(runningTask)
LayerCleanup_none(tasks, id) == tasks

LayerCleanup(tasks, id) == cancelRunningTask(tasks, id)

\* what the engine's promise can settle with: pdf.getPage(n), the one page object
\* the document keeps for page n; pdf.getOutline(), null when the document has
\* none; page.getTextContent(); page.getOperatorList()
EngineOutcomes(c, t) ==
    {[ok |-> TRUE, v |-> CASE c = "Page" -> Val("page", t.obj.id, ToString(t.n))
                           [] c = "Outline" -> Val("outline", t.id, "host")
                           [] c = "TextLayer" -> Val("text", t.id, "host")
                           [] OTHER -> Val("operators", t.id, "host")],
     [ok |-> FALSE, v |-> Val("error", t.id, "host")]}
        \cup (IF c = "Outline" THEN {[ok |-> TRUE, v |-> Null]} ELSE {})
        \* the engine aborts an operator list with a RenderingCancelledException
        \cup (IF c = "PageSVG" THEN {[ok |-> FALSE, v |-> Val("cancel", t.id, "host")]}
              ELSE {})

\* Page: the effect on [page, scale]
PageCallbacks(c, page, pageError) ==
    IF page.kind = "undefined" THEN c
    ELSE IF page = False
        THEN IF pageError.kind = "undefined" THEN c
             ELSE Bump(c, <<"Page.onLoadError", pageError>>)
    ELSE IF ~Truthy(page) THEN c
    ELSE Bump(c, <<"Page.onLoadSuccess", page>>)

\* Outline: the effect on [outline]
OutlineCallbacks(c, outline, outlineError) ==
    IF outline.kind = "undefined" THEN c
    ELSE IF outline = False
        THEN IF outlineError.kind = "undefined" THEN c
             ELSE Bump(c, <<"Outline.onLoadError", outlineError>>)
    ELSE Bump(c, <<"Outline.onLoadSuccess", outline>>)

\* TextLayer: the effect on [textContent]
TextCallbacks(c, textContent, textContentError) ==
    IF textContent.kind = "undefined" THEN c
    ELSE IF textContent = False
        THEN IF textContentError.kind = "undefined" THEN c
             ELSE Bump(c, <<"TextLayer.onGetTextError", textContentError>>)
    ELSE IF ~Truthy(textContent) THEN c
    ELSE Bump(c, <<"TextLayer.onGetTextSuccess", textContent>>)

\* isCancelException(error): error.name === 'RenderingCancelledException'
isCancelException(error) == error.kind = "cancel"

\* PageSVG: the effect on [svg]
SVGCallbacks(c, svg, svgError) ==
    IF svg.kind = "undefined" THEN c
    ELSE IF svg = False
        THEN IF svgError.kind = "undefined" \/ isCancelException(svgError) THEN c
             ELSE Bump(c, <<"PageSVG.onRenderError", svgError>>)
    ELSE Bump(c, <<"PageSVG.onRenderSuccess", svg>>)

LayerCallbacks(c, cl, value, error) ==
    CASE c = "Page" -> PageCallbacks(cl, value, error)
      [] c = "Outline" -> OutlineCallbacks(cl, value, error)
      [] c = "TextLayer" -> TextCallbacks(cl, value, error)
      [] OTHER -> SVGCallbacks(cl, value, error)

NoRequest == [id |-> 0, obj |-> Undefined, n |-> 0]

--------------------------------------------------------------------------
(* Page.tsx renderContent and Page/PageCanvas.tsx: the canvas under a Page *)

PageRenderContent_early(n, pdf, page) ==
    IF n = 0 THEN "no-data"
    ELSE IF pdf.kind = "null" \/ page.kind = "null" THEN "loading"
    ELSE IF pdf = False \/ page = False THEN "error"
    ELSE "layers"

\* renderContent of the Page
PageRenderContent(n, pdf, page) ==
    IF n = 0 THEN "no-data"
    ELSE IF pdf.kind = "null" \/ page.kind \in {"undefined", "null"} THEN "loading"
    ELSE IF pdf = False \/ page = False THEN "error"
    ELSE "layers"

\* a destructuring default: `prop = d` takes d when the prop is undefined
WithDefault(v, d) == IF v = "absent" THEN d ELSE v

\* pageNumber: pageNumberProps ?? (isProvided(pageIndexProps) ? pageIndexProps + 1 : null);
\* null is given as 0: !pageNumber is all that is asked of it
pageNumber(p) ==
    IF p.pageNumber # Absent THEN p.pageNumber
    ELSE IF p.pageIndex # Absent THEN p.pageIndex + 1
    ELSE 0

renderMainLayer_svg(mode) ==
    CASE mode = "none" -> "none"
      [] mode = "canvas" -> "PageCanvas"
      [] OTHER -> "PageSVG"

\* renderMainLayer: switch (renderMode)
renderMainLayer(mode) ==
    CASE mode = "none" -> "none"
      [] mode = "svg" -> "PageSVG"
      [] OTHER -> "PageCanvas"

\* renderTextLayer: if (!renderTextLayerProps) return null
renderTextLayer(flag) == flag # "false"

\* renderAnnotationLayer: if (!renderAnnotationLayerProps) return null
renderAnnotationLayer(flag) == flag # "false"

\* what a render of the Page returns: invariant(pdf, ...) throws without a
\* document; renderContent returns a message or the layers
PageView(p, page) ==
    IF ~Truthy(p.pdf) THEN NoLayers("thrown", page)
    ELSE IF PageRenderContent(pageNumber(p), p.pdf, page) = "layers"
    THEN [content |-> "layers",
          main |-> renderMainLayer(WithDefault(p.renderMode, "canvas")),
          text |-> renderTextLayer(WithDefault(p.renderTextLayer, "true")),
          annotations |-> renderAnnotationLayer(WithDefault(p.renderAnnotationLayer, "true")),
          page |-> page]
    ELSE NoLayers(PageRenderContent(pageNumber(p), p.pdf, page), page)

\* renderMainLayer, renderMode 'canvas': the Page renders <PageCanvas key={pageKey}>
\* with its layers
CanvasPresent(in, page) ==
    comp = "Page" /\ PageRenderContent(in.n, in.obj, page) = "layers"

\* pageKey: `${pageIndex}@${scale}/${rotate}`, the scale and rotate props left alone
pageKey(in) == in.n

\* the deps of drawPageOnCanvas that vary here: page and the viewports computed from it
DrawDeps(page) == <<page>>

\* drawPageOnCanvas runs: at the mount of a PageCanvas and when its deps changed
CanvasDraws(present, key, page) ==
    present /\ (kLife # "mounted" \/ key # kKey \/ DrawDeps(page) # DrawDeps(kPage))

\* the PageCanvas instance is removed: not rendered any more, or rendered under another key
CanvasLeaves(present, key) == kLife = "mounted" /\ (~present \/ key # kKey)

\* The PageCanvas part of a commit of its Page, which rendered it (present) with `page`
\* in its context, or did not. The cleanups run first: the one drawPageOnCanvas
\* returned, () => cancelRunningTask(runningTask), when the effect runs again or the
\* instance is removed; `cleanup`, a new function at every render, at every render
\* after the first and at the removal. Then drawPageOnCanvas starts the render task `id`.
CanvasCommit(present, key, page, id) ==
    LET draws == CanvasDraws(present, key, page)
        cancels == kLife = "mounted" /\ kCur # 0 /\ (draws \/ CanvasLeaves(present, key))
        releases == kLife = "mounted"
        tasks1 == IF cancels THEN cancelRunningTask(kTasks, kCur) ELSE kTasks
    IN  /\ kLife' = IF present THEN "mounted"
                    ELSE IF kLife = "mounted" THEN "unmounted" ELSE kLife
        /\ kKey' = IF present THEN key ELSE kKey
        /\ kPage' = IF present THEN page ELSE kPage
        /\ kTasks' = IF draws
                     THEN tasks1 \cup {[id |-> id, page |-> page, cancelled |-> FALSE]}
                     ELSE tasks1
        /\ kCur' = IF draws THEN id ELSE kCur
        /\ canvas' = IF draws THEN "hidden" ELSE IF releases THEN "released" ELSE canvas
        /\ kStarts' = IF draws
                      THEN kStarts \cup {[page |-> page, resolver |-> cState.value]}
                      ELSE kStarts
        /\ kCleanups' =
                kCleanups
                    \cup (IF cancels THEN {[what |-> "cancel", started |-> kCur # 0]} ELSE {})
                    \cup (IF releases THEN {[what |-> "release", started |-> kCur # 0]}
                          ELSE {})
        /\ UNCHANGED kSettled

onRenderError_all(c, error) == Bump(c, <<"PageCanvas.onRenderError", error>>)

\* onRenderError: a cancel exception is dropped, another error goes to the host
onRenderError(c, error) ==
    IF isCancelException(error) THEN c ELSE Bump(c, <<"PageCanvas.onRenderError", error>>)

\* onRenderSuccess: onRenderSuccessProps(makePageCallback(page, scale))
onRenderSuccess(c, page) ==
    IF ~Truthy(page) THEN c ELSE Bump(c, <<"PageCanvas.onRenderSuccess", page>>)

--------------------------------------------------------------------------
(* One commit of a Page, an Outline, a TextLayer or a PageSVG *)

LayerNow(in) ==
    [obj |-> in.obj, n |-> in.n, reg |-> in.reg, value |-> cState.value,
     error |-> cState.error]

LayerResets(in) == cLife = "new" \/ ResetDeps(comp, cRendered) # ResetDeps(comp, LayerNow(in))

LayerLoadChanged(in) ==
    cLife = "new" \/ LoadDeps(comp, cRendered) # LoadDeps(comp, LayerNow(in))

LayerLoads(in) == LayerLoadChanged(in) /\ Loads(comp, in)

\* the render task its PageCanvas starts in this commit, if any
LayerCanvasIds(in) ==
    IF CanvasDraws(CanvasPresent(in, cState.value), pageKey(in), cState.value) THEN 1 ELSE 0

\* the objects this commit creates
LayerIds(in) == LayerCanvasIds(in) + (IF LayerLoads(in) THEN 1 ELSE 0)

\* the callback effect, on the resolver's value
LayerCalls(in, c) ==
    IF cLife = "new" \/ cRendered.value # cState.value
    THEN LayerCallbacks(comp, c, cState.value, cState.error)
    ELSE c

\* The component renders with the props `in` and its effects run, after those of
\* the PageCanvas it rendered; the objects created are numbered from id0.
LayerCommit(in, id0) ==
    LET myId == id0 + LayerCanvasIds(in)
        tasks1 == IF LayerLoadChanged(in) /\ cCur # 0 THEN LayerCleanup(cTasks, cCur)
                  ELSE cTasks
    IN  /\ CanvasCommit(CanvasPresent(in, cState.value), pageKey(in), cState.value, id0)
        /\ cRendered' = LayerNow(in)
        \* the reset effect
        /\ cState' = IF LayerResets(in) THEN reducer(cState, ResetAction) ELSE cState
        /\ cSetBy' = IF LayerResets(in) THEN NoRequest ELSE cSetBy
        \* the load effect
        /\ cTasks' = IF LayerLoads(in)
                     THEN tasks1 \cup {[id |-> myId, obj |-> in.obj, n |-> in.n,
                                        stage |-> 1, cancelled |-> FALSE]}
                     ELSE tasks1
        /\ cCur' = IF LayerLoads(in) THEN myId ELSE IF LayerLoadChanged(in) THEN 0 ELSE cCur
        /\ issued' = IF LayerLoads(in)
                     THEN issued \cup {[obj |-> in.obj, resolver |-> pdfState.value]}
                     ELSE issued

\* the component is removed: the cleanup of its load effect and those of its
\* PageCanvas run
LayerLeaves ==
    /\ cTasks' = IF cCur # 0 THEN LayerCleanup(cTasks, cCur) ELSE cTasks
    /\ CanvasCommit(FALSE, kKey, kPage, 0)

--------------------------------------------------------------------------
(* The Page a host put in the Document's slot *)

MaxTreeChanges == 1

\* the Document has a Page child in this behaviour
HasPage == comp = "Page" /\ life # "absent"

\* the context and props of the Page: the pdf the Document rendered with, the
\* host's pageNumber, and registerPage, a new function at every Document render
ChildInput(pdf, n) == [obj |-> pdf, n |-> n, reg |-> 1 - cRendered.reg]

ChildIds(content, pdf, n) ==
    IF HasPage /\ content = "children" THEN LayerIds(ChildInput(pdf, n)) ELSE 0

ChildCalls(content, pdf, n, c) ==
    IF HasPage /\ content = "children" THEN LayerCalls(ChildInput(pdf, n), c) ELSE c

\* The children's part of a commit of the Document, which returned `content`: the
\* Page is rendered (mounted, if it was not there), or removed, or stays away.
ChildrenCommit(content, pdf, n, id0) ==
    IF HasPage /\ content = "children"
    THEN /\ cLife' = "mounted"
         /\ cInput' = ChildInput(pdf, n)
         /\ LayerCommit(ChildInput(pdf, n), id0)
    ELSE IF HasPage /\ cLife = "mounted"
    THEN /\ LayerLeaves
         /\ cLife' = "new"
         /\ cInput' = [obj |-> Undefined, n |-> n, reg |-> 0]
         /\ cState' = useResolver
         /\ cRendered' = NeverRendered
         /\ cCur' = 0
         /\ cSetBy' = NoRequest
         /\ UNCHANGED issued
    ELSE /\ cInput' = [cInput EXCEPT !.n = n]
         /\ UNCHANGED <<cLife, cState, cRendered, cTasks, cCur, cSetBy, issued, canvasVars>>

--------------------------------------------------------------------------
(* Document.tsx: renders and promises *)

\* The Document's part of a commit: it rendered with props f and o, and its effects
\* run after those of its children, which created the objects before id0 and
\* left the callback counts c0.
DocumentCommit(f, o, id0, c0) ==
    LET first == life = "new"
        now == [file |-> f, options |-> o,
                source |-> sourceState.value, sourceError |-> sourceState.error,
                pdf |-> pdfState.value, pdfError |-> pdfState.error,
                content |-> renderContent(f, pdfState.value)]
        fileChanged == first \/ rendered.file # f
        sourceChanged == first \/ rendered.source # now.source
        resetDoc == first \/ ResetDocumentDeps(rendered) # ResetDocumentDeps(now)
        loadChanged == first \/ LoadDocumentDeps(rendered) # LoadDocumentDeps(now)
        pdfChanged == first \/ rendered.pdf # now.pdf
        \* cleanups
        sourceTasks1 == IF fileChanged /\ curSourceTask # 0
                        THEN SourceEffectCleanup(sourceTasks, curSourceTask)
                        ELSE sourceTasks
        loadTasks1 == IF loadChanged /\ curLoadTask # 0
                      THEN LoadDocumentCleanup(loadTasks, curLoadTask)
                      ELSE loadTasks
        \* effects
        sourceId == id0
        loadId == IF fileChanged THEN id0 + 1 ELSE id0
        loads == loadChanged /\ loadDocument(now.source)
        calls1 == IF sourceChanged
                  THEN SourceCallbacks(c0, now.source, now.sourceError)
                  ELSE c0
    IN  /\ rendered' = now
        \* resetSource, on [file]
        /\ sourceState' = IF fileChanged THEN reducer(sourceState, ResetAction)
                          ELSE sourceState
        /\ sourceSetBy' = IF fileChanged THEN 0 ELSE sourceSetBy
        \* the source effect, on [findDocumentSource]
        /\ sourceTasks' = IF fileChanged
                          THEN sourceTasks1 \cup
                               {[id |-> sourceId, file |-> f, cancelled |-> FALSE]}
                          ELSE sourceTasks1
        /\ curSourceTask' = IF fileChanged THEN sourceId ELSE curSourceTask
        \* resetDocument, on [source]
        /\ pdfState' = IF resetDoc THEN reducer(pdfState, ResetAction) ELSE pdfState
        /\ pdfSetBy' = IF resetDoc THEN 0 ELSE pdfSetBy
        \* loadDocument, on [options, source]
        /\ loadTasks' = IF loads
                        THEN loadTasks1 \cup
                             {[id |-> loadId, source |-> now.source, destroyed |-> FALSE,
                               announced |->
                                   Count(CallsAtLoad(c0, calls1),
                                         <<"onSourceSuccess", now.source>>) > 0]}
                        ELSE loadTasks1
        /\ curLoadTask' = IF loads THEN loadId
                          ELSE IF loadChanged THEN 0 ELSE curLoadTask
        /\ nextId' = id0 + (IF fileChanged THEN 1 ELSE 0) + (IF loads THEN 1 ELSE 0)
        \* the callback effects, on [source] and on [pdf]
        /\ calls' = IF pdfChanged THEN PdfCallbacks(calls1, now.pdf, now.pdfError)
                    ELSE calls1

\* One commit of the Document, rendered with props f and o, and of the Page in its
\* slot, if the host put one there, with page number n.
Render(f, o, n) ==
    LET pdf == pdfState.value
        content == renderContent(f, pdf)
    IN  /\ ChildrenCommit(content, pdf, n, nextId)
        /\ DocumentCommit(f, o, nextId + ChildIds(content, pdf, n),
                          ChildCalls(content, pdf, n, calls))
        /\ UNCHANGED <<comp, late, swallowed, outcome, otherVars>>

\* with a Page in the Document's slot the host changes fewer props
HostMayChange == HasPage => changes + cChanges < MaxTreeChanges

\* a dispatch happened since the last render
Dirty ==
    \/ rendered.source # sourceState.value
    \/ rendered.sourceError # sourceState.error
    \/ rendered.pdf # pdfState.value
    \/ rendered.pdfError # pdfState.error

\* the host mounts <Document file={f}>
Mount(f) ==
    /\ life = "new"
    /\ life' = "mounted"
    /\ file' = f
    /\ options' = 0
    /\ UNCHANGED <<changes, cChanges>>
    /\ Render(f, 0, cInput.n)

\* the host passes another file
ChangeFile(f) ==
    /\ life = "mounted"
    /\ changes < MaxChanges
    /\ HostMayChange
    /\ f # file
    /\ file' = f
    /\ changes' = changes + 1
    /\ UNCHANGED <<life, options, cChanges>>
    /\ Render(f, options, cInput.n)

\* the host passes another options object
ChangeOptions ==
    /\ life = "mounted"
    /\ changes < MaxChanges
    /\ HostMayChange
    /\ options' = options + 1
    /\ changes' = changes + 1
    /\ UNCHANGED <<life, file, cChanges>>
    /\ Render(file, options + 1, cInput.n)

\* the render a dispatch scheduled
Rerender ==
    /\ life = "mounted"
    /\ Dirty
    /\ UNCHANGED <<life, file, options, changes, cChanges>>
    /\ Render(file, options, cInput.n)

\* the Document unmounts: the cleanups of its effects and of its children's run
Unmount ==
    /\ life = "mounted"
    /\ life' = "unmounted"
    /\ sourceTasks' = SourceEffectCleanup(sourceTasks, curSourceTask)
    /\ loadTasks' = IF curLoadTask # 0 THEN LoadDocumentCleanup(loadTasks, curLoadTask)
                    ELSE loadTasks
    /\ IF cLife = "mounted"
       THEN /\ LayerLeaves
            /\ cLife' = "unmounted"
            /\ UNCHANGED <<cInput, cState, cRendered, cCur, cSetBy, issued>>
       ELSE UNCHANGED <<cLife, cInput, cState, cRendered, cTasks, cCur, cSetBy, issued,
                        canvasVars>>
    /\ UNCHANGED <<file, options, sourceState, pdfState, rendered, curSourceTask,
                   curLoadTask, nextId, changes, calls, sourceSetBy, pdfSetBy,
                   late, swallowed, outcome, otherVars, comp, cChanges>>

\* the task `id` is the one the last run of its effect started, and no cleanup ran since
Current(id, cur) == life = "mounted" /\ id = cur

\* the record of a dispatch: RESOLVE(v) or REJECT(v)
Outcome(ok, v) == [result |-> IF ok THEN "resolved" ELSE "rejected", v |-> v]

\* the promise of findDocumentSource() settles; makeCancellable passes the outcome
\* on to .then / .catch unless it was cancelled
SourceSettles ==
    \E t \in sourceTasks : \E out \in findDocumentSource(t.file, t.id) :
        /\ sourceTasks' = sourceTasks \ {t}
        /\ IF t.cancelled
           THEN /\ swallowed' = swallowed \cup {<<"source", t.id>>}
                /\ UNCHANGED <<sourceState, sourceSetBy, late, outcome>>
           ELSE /\ sourceState' =
                      reducer(sourceState,
                              IF out.ok THEN ResolveAction(out.v) ELSE RejectAction(out.v))
                /\ sourceSetBy' = t.id
                /\ late' = IF Current(t.id, curSourceTask) THEN late
                           ELSE late \cup {<<"source", t.id>>}
                /\ outcome' = outcome @@ (<<"source", t.id>> :> Outcome(out.ok, out.v))
                /\ UNCHANGED swallowed
        /\ UNCHANGED <<life, file, options, pdfState, rendered, loadTasks,
                       curSourceTask, curLoadTask, nextId, changes, calls, pdfSetBy,
                       otherVars, layerVars, canvasVars>>

\* loadingTask.promise.then: RESOLVE
LoadResolved(st, t) == reducer(st, ResolveAction(Val("pdf", t.id, t.source.of)))

\* loadingTask.promise.catch: REJECT
LoadRejected(st, t, error) == reducer(st, RejectAction(error))

\* the promise of a loading task settles before the task was destroyed
LoadSettles ==
    \E t \in loadTasks : \E ok \in BOOLEAN :
        /\ ~t.destroyed
        /\ loadTasks' = loadTasks \ {t}
        /\ pdfState' = IF ok THEN LoadResolved(pdfState, t)
                       ELSE LoadRejected(pdfState, t, Val("error", t.id, t.source.of))
        /\ pdfSetBy' = t.id
        /\ outcome' = outcome @@
                (<<"pdf", t.id>> :> Outcome(ok, IF ok THEN Val("pdf", t.id, t.source.of)
                                                ELSE Val("error", t.id, t.source.of)))
        /\ late' = IF Current(t.id, curLoadTask) THEN late ELSE late \cup {<<"pdf", t.id>>}
        /\ UNCHANGED <<life, file, options, sourceState, rendered, sourceTasks,
                       curSourceTask, curLoadTask, nextId, changes, calls,
                       sourceSetBy, swallowed, otherVars, layerVars, canvasVars>>

\* the engine rejects the promise of a loading task that was destroyed while loading
LoadAborts ==
    \E t \in loadTasks :
        /\ t.destroyed
        /\ loadTasks' = loadTasks \ {t}
        /\ pdfState' = LoadRejected(pdfState, t, Val("aborted", t.id, t.source.of))
        /\ pdfSetBy' = t.id
        /\ late' = IF Current(t.id, curLoadTask) THEN late ELSE late \cup {<<"pdf", t.id>>}
        /\ outcome' = outcome @@
                (<<"pdf", t.id>> :> Outcome(FALSE, Val("aborted", t.id, t.source.of)))
        /\ UNCHANGED <<life, file, options, sourceState, rendered, sourceTasks,
                       curSourceTask, curLoadTask, nextId, changes, calls,
                       sourceSetBy, swallowed, otherVars, layerVars, canvasVars>>

--------------------------------------------------------------------------
(* Page.tsx, Outline.tsx, TextLayer.tsx, PageSVG, PageCanvas.tsx: renders and
   promises *)

\* One commit of the component alone: its parent did not render.
LayerRender(in) ==
    /\ LayerCommit(in, nextId)
    /\ nextId' = nextId + LayerIds(in)
    /\ calls' = LayerCalls(in, calls)
    /\ UNCHANGED <<comp, late, swallowed, outcome, otherVars, documentVars>>

LayerDirty == cRendered.value # cState.value \/ cRendered.error # cState.error

\* the host renders the component for the first time
LayerMount(in) ==
    /\ life = "absent"
    /\ cLife = "new"
    /\ cLife' = "mounted"
    /\ cInput' = in
    /\ UNCHANGED cChanges
    /\ LayerRender(in)

\* the host passes other props: any, to a component it renders itself; another
\* page number, to the Page in the Document's slot, and the Document renders too
LayerChange(in) ==
    /\ cChanges < MaxLayerChanges
    /\ cChanges' = cChanges + 1
    /\ IF life = "absent"
       THEN /\ cLife = "mounted"
            /\ in # cInput
            /\ cInput' = in
            /\ UNCHANGED cLife
            /\ LayerRender(in)
       ELSE /\ life = "mounted"
            /\ HostMayChange
            \* of the props tried only the page number counts: the pdf comes
            \* from the Document
            /\ in.obj = Val("pdf", 1, "host")
            /\ in.n # cInput.n
            /\ UNCHANGED <<life, file, options, changes>>
            /\ Render(file, options, in.n)

\* the render a dispatch scheduled
LayerRerender ==
    /\ cLife = "mounted"
    /\ LayerDirty
    /\ UNCHANGED <<cLife, cInput, cChanges>>
    /\ LayerRender(cInput)

\* the host removes the component
LayerUnmount ==
    /\ life = "absent"
    /\ cLife = "mounted"
    /\ cLife' = "unmounted"
    /\ LayerLeaves
    /\ UNCHANGED <<comp, cInput, cState, cRendered, cCur, cSetBy, cChanges, issued,
                   docVars, otherVars>>

LayerCurrent(id) == cLife = "mounted" /\ id = cCur

\* the dispatch of a request's outcome, and its bookkeeping
LayerDispatch(t, out) ==
    /\ cState' = reducer(cState, IF out.ok THEN ResolveAction(out.v) ELSE RejectAction(out.v))
    /\ cSetBy' = [id |-> t.id, obj |-> t.obj, n |-> t.n]
    /\ late' = IF LayerCurrent(t.id) THEN late ELSE late \cup {<<comp, t.id>>}
    /\ outcome' = outcome @@ (<<comp, t.id>> :> Outcome(out.ok, out.v))

\* the promise of a makeCancellable(...) request settles: .then / .catch run unless
\* the cancellable was cancelled. In PageSVG .then starts svgGfx.getSVG(...)
LayerSettles ==
    \E t \in cTasks : \E out \in EngineOutcomes(comp, t) :
        /\ t.stage = 1
        /\ IF t.cancelled
           THEN /\ cTasks' = cTasks \ {t}
                /\ swallowed' = swallowed \cup {<<comp, t.id>>}
                /\ UNCHANGED <<cState, cSetBy, late, outcome>>
           ELSE IF comp = "PageSVG" /\ out.ok
           THEN /\ cTasks' = (cTasks \ {t}) \cup {[t EXCEPT !.stage = 2]}
                /\ UNCHANGED <<cState, cSetBy, late, outcome, swallowed>>
           ELSE /\ cTasks' = cTasks \ {t}
                /\ LayerDispatch(t, out)
                /\ UNCHANGED swallowed
        /\ UNCHANGED <<comp, cLife, cInput, cRendered, cCur, cChanges, issued, otherVars,
                       canvasVars>>
        /\ UNCHANGED <<life, file, options, sourceState, pdfState, rendered, sourceTasks,
                       loadTasks, curSourceTask, curLoadTask, nextId, changes, calls,
                       sourceSetBy, pdfSetBy>>

\* PageSVG: the promise of svgGfx.getSVG(operatorList, viewport) settles
SVGSettles ==
    \E t \in cTasks : \E ok \in BOOLEAN :
        /\ t.stage = 2
        /\ cTasks' = cTasks \ {t}
        /\ LayerDispatch(t, [ok |-> ok, v |-> Val(IF ok THEN "svg" ELSE "error", t.id, "host")])
        /\ UNCHANGED <<comp, cLife, cInput, cRendered, cCur, cChanges, issued, swallowed,
                       otherVars, canvasVars>>
        /\ UNCHANGED <<life, file, options, sourceState, pdfState, rendered, sourceTasks,
                       loadTasks, curSourceTask, curLoadTask, nextId, changes, calls,
                       sourceSetBy, pdfSetBy>>

\* the record of a settled render task; its error is of the kind given
RenderSettled(t, result, kind) ==
    [id |-> t.id, page |-> t.page, result |-> result,
     error |-> IF kind = "undefined" THEN Undefined ELSE Val(kind, t.id, "host")]

\* the promise of a render task settles: the engine rejects it with a
\* RenderingCancelledException if the task was cancelled
CanvasSettles ==
    \E t \in kTasks : \E ok \in BOOLEAN :
        /\ kTasks' = kTasks \ {t}
        /\ IF t.cancelled
           THEN /\ ~ok
                /\ calls' = onRenderError(calls, Val("cancel", t.id, "host"))
                /\ kSettled' = kSettled \cup {RenderSettled(t, "cancelled", "cancel")}
                /\ UNCHANGED canvas
           ELSE IF ok
           THEN /\ calls' = onRenderSuccess(calls, t.page)
                /\ kSettled' = kSettled \cup {RenderSettled(t, "completed", "undefined")}
                /\ canvas' = IF canvas = "hidden" THEN "shown" ELSE canvas
           ELSE /\ calls' = onRenderError(calls, Val("error", t.id, "host"))
                /\ kSettled' = kSettled \cup {RenderSettled(t, "failed", "error")}
                /\ UNCHANGED canvas
        /\ UNCHANGED <<kLife, kKey, kPage, kCur, kStarts, kCleanups>>
        /\ UNCHANGED <<documentVars, nextId, late, swallowed, outcome, layerVars,
                       otherVars>>

--------------------------------------------------------------------------
(* Specifications *)

\* a behaviour of one Page (with its canvas), Outline, TextLayer or PageSVG, its
\* props given by the host
LayerNew == comp \in Layers /\ cLife = "new" /\ LayerFields(0)

DocNext ==
    \/ \E f \in Files : Mount(f)
    \/ \E f \in Files : ChangeFile(f)
    \/ ChangeOptions
    \/ Rerender
    \/ Unmount
    \/ SourceSettles
    \/ LoadSettles
    \/ LoadAborts

LayerNext ==
    \/ \E in \in LayerInputs(comp) : LayerMount(in)
    \/ \E in \in LayerInputs(comp) : LayerChange(in)
    \/ LayerRerender
    \/ LayerUnmount
    \/ LayerSettles
    \/ SVGSettles
    \/ CanvasSettles

\* every component by itself: a Document without children, or a Page, an Outline,
\* a TextLayer or a PageSVG whose props the host gives
Init ==
    /\ state = useResolver
    /\ prevState = useResolver
    /\ lastAction = ResetAction
    /\ pProps = NoProps
    /\ pShown = NotShown
    /\ LinksAbsent
    /\ CanvasAbsent
    /\ \/ DocNew /\ LayerAbsent
       \/ DocAbsent /\ LayerNew

Next == DocNext \/ LayerNext

Spec == Init /\ [][Next]_vars

\* every promise settles and every scheduled render happens; the host is free
SpecLive ==
    /\ Spec
    /\ WF_vars(Rerender)
    /\ WF_vars(SourceSettles)
    /\ WF_vars(LoadSettles)

\* an outcome is dispatched to the resolver of the Page
PageDispatch(a) ==
    /\ state' = reducer(state, a)
    /\ UNCHANGED <<prevState, lastAction, pProps, pShown, linkVars, docVars, layerVars,
                   canvasVars>>

\* the Page renders with its props and the value of its resolver
PageRenders ==
    /\ pShown' = PageView(pProps, state.value)
    /\ UNCHANGED <<state, prevState, lastAction, pProps, linkVars, docVars, layerVars,
                   canvasVars>>

PageInit ==
    /\ DocNew
    /\ LayerAbsent
    /\ CanvasAbsent
    /\ state = useResolver
    /\ prevState = useResolver
    /\ lastAction = ResetAction
    /\ pProps \in PageProps
    /\ pShown = NotShown
    /\ LinksAbsent

PageNext ==
    \/ \E a \in TestActions : PageDispatch(a)
    \/ PageRenders

\* the content of a Page, for every choice of its props and every run of its resolver
SpecPage == PageInit /\ [][PageNext]_vars

\* registerPage(pageIndex, ref): pages.value[pageIndex] = ref
registerPage(p, pageIndex, ref) == [p EXCEPT ![pageIndex] = ref]

\* unregisterPage(pageIndex): delete pages.value[pageIndex]
unregisterPage(p, pageIndex) == [p EXCEPT ![pageIndex] = 0]

\* pages.value[pageIndex]: undefined at a hole and past the end
PageAt(p, pageIndex) == IF pageIndex \in DOMAIN p THEN p[pageIndex] ELSE 0

scrollPageIntoView_pagesFirst(given, p, args) ==
    IF PageAt(p, args.pageIndex) # 0
    THEN [clicked |-> NoArgs, scrolled |-> PageAt(p, args.pageIndex), warned |-> FALSE]
    ELSE IF given THEN [clicked |-> args, scrolled |-> 0, warned |-> FALSE]
    ELSE [clicked |-> NoArgs, scrolled |-> 0, warned |-> TRUE]

\* viewer.scrollPageIntoView({dest, pageIndex, pageNumber}): what it does, for a
\* Document given onItemClick or not: onItemClick(args), page.scrollIntoView() of
\* the element scrolled (0: none), warning(false, ...)
scrollPageIntoView(given, p, args) ==
    IF given THEN [clicked |-> args, scrolled |-> 0, warned |-> FALSE]
    ELSE IF PageAt(p, args.pageIndex) # 0
    THEN [clicked |-> NoArgs, scrolled |-> PageAt(p, args.pageIndex), warned |-> FALSE]
    ELSE [clicked |-> NoArgs, scrolled |-> 0, warned |-> TRUE]

\* the targets of the links: the pages of the registry and one past them
LinkArgs ==
    {[dest |-> "dest", pageIndex |-> i, pageNumber |-> i + 1] : i \in 0..(MaxPageIndex + 1)}

\* a Page calls registerPage of the Document context
RegisterPage ==
    /\ \E i \in 0..MaxPageIndex : \E el \in 1..MaxElement :
            pages' = registerPage(pages, i, el)
    /\ UNCHANGED <<onItemClick, linked, reducerVars, pageVars, docVars, layerVars,
                   canvasVars>>

\* a Page calls unregisterPage of the Document context
UnregisterPage ==
    /\ \E i \in 0..MaxPageIndex : pages' = unregisterPage(pages, i)
    /\ UNCHANGED <<onItemClick, linked, reducerVars, pageVars, docVars, layerVars,
                   canvasVars>>

\* onLoadSuccess of the Document: pages.value = new Array(pdf.numPages)
PagesReset ==
    /\ pages' = NoPages
    /\ UNCHANGED <<onItemClick, linked, reducerVars, pageVars, docVars, layerVars,
                   canvasVars>>

\* the link service follows an internal link
FollowLink ==
    /\ \E args \in LinkArgs :
            linked' = [dest |-> args.dest, pageIndex |-> args.pageIndex,
                       pageNumber |-> args.pageNumber,
                       registered |-> PageAt(pages, args.pageIndex)]
                      @@ scrollPageIntoView(onItemClick, pages, args)
    /\ UNCHANGED <<onItemClick, pages, reducerVars, pageVars, docVars, layerVars,
                   canvasVars>>

LinksInit ==
    /\ DocNew
    /\ LayerAbsent
    /\ CanvasAbsent
    /\ state = useResolver
    /\ prevState = useResolver
    /\ lastAction = ResetAction
    /\ pProps = NoProps
    /\ pShown = NotShown
    /\ onItemClick \in BOOLEAN
    /\ pages = NoPages
    /\ linked = NoLink

LinksNext ==
    \/ RegisterPage
    \/ UnregisterPage
    \/ PagesReset
    \/ FollowLink

\* the page registry of a Document and the links followed, the Document given
\* onItemClick or not
SpecLinks == LinksInit /\ [][LinksNext]_vars

\* a Document with a Page in its slot, the Page with its PageCanvas
TreeInit ==
    /\ state = useResolver
    /\ prevState = useResolver
    /\ lastAction = ResetAction
    /\ pProps = NoProps
    /\ pShown = NotShown
    /\ LinksAbsent
    /\ CanvasAbsent
    /\ DocNew
    /\ comp = "Page"
    /\ cLife = "new"
    /\ LayerFields(1)

TreeNext ==
    \/ \E f \in Files : Mount(f)
    \/ \E f \in Files : ChangeFile(f)
    \/ ChangeOptions
    \/ Rerender
    \/ Unmount
    \/ SourceSettles
    \/ LoadSettles
    \/ LoadAborts
    \/ \E in \in LayerInputs(comp) : LayerChange(in)
    \/ LayerRerender
    \/ LayerSettles
    \/ CanvasSettles

SpecTree == TreeInit /\ [][TreeNext]_vars

--------------------------------------------------------------------------
(* C2: source resolution is cancelled when its input changes: once the file
   prop changed or the Document unmounted, the outcome of the earlier
   findDocumentSource() is never dispatched to the source resolver; what the
   source resolver holds was set by the resolution started for the current
   file. *)
C2_SourceCancelled ==
    /\ \A e \in late : e[1] # "source"
    /\ sourceSetBy # 0 => sourceSetBy = curSourceTask
    /\ sourceState.value.kind = "source" => sourceState.value.of = file
    /\ sourceState.value = False => sourceState.error.of = file

\* the resolution of an earlier file settled after the file changed and after the
\* resolution of the current file was dispatched: its outcome went nowhere
C2_Witness ==
    /\ life = "mounted"
    /\ changes > 0
    /\ \E e \in swallowed : e[1] = "source" /\ e[2] < curSourceTask
    /\ sourceSetBy = curSourceTask
    /\ sourceState.value.kind = "source"

(* C3: document loading is cancelled when its input changes: once the source
   or the options changed or the Document unmounted, no outcome of the
   loading task started before is dispatched to the pdf resolver; what the
   pdf resolver holds was set by the loading task of the current source. *)
C3_LoadCancelled ==
    /\ \A e \in late : e[1] # "pdf"
    /\ pdfSetBy # 0 => pdfSetBy = curLoadTask

(* C4: in Page, Outline and TextLayer a request in flight is cancelled when
   the component's input changes or the component unmounts: its outcome is
   never dispatched to the resolver; what the resolver holds after the RESET
   was set by the request issued for the current input. *)
C4_RequestCancelled ==
    comp \in {"Page", "Outline", "TextLayer"} =>
        /\ \A e \in late : e[1] # comp
        /\ cSetBy.id # 0 =>
            /\ cSetBy.id <= cCur
            /\ cSetBy.obj = cInput.obj
            /\ cSetBy.n = cInput.n
        /\ cSetBy.id = 0 => cState = ResetState

\* the request of an earlier input settled after the input changed, its outcome went
\* nowhere, and the resolver holds the outcome of the request for the current input
C4_Witness ==
    /\ comp \in {"Page", "Outline", "TextLayer"}
    /\ cLife = "mounted"
    /\ cChanges > 0
    /\ \E e \in swallowed : e[1] = comp /\ e[2] < cCur
    /\ cSetBy.id = cCur
    /\ cSetBy.obj = cInput.obj
    /\ cState.value.kind \in {"page", "outline", "text"}

HostCalled(name, arg) == Count(calls, <<name, arg>>)

\* the loading tasks whose promise settled while they were the current one
SettledWhileCurrent ==
    {k[2] : k \in {x \in DOMAIN outcome : x[1] = "pdf" /\ x \notin late}}

(* C5: for every loading task that settles while its source is current,
   exactly one host callback is invoked, exactly once: onLoadSuccess(pdf) iff
   the task resolved, onLoadError(error) iff it rejected (stated of the
   states in which every dispatch has been rendered). *)
C5_ExactlyOneCallback ==
    (life = "mounted" /\ ~Dirty) =>
        \A id \in SettledWhileCurrent :
            LET succ == {k \in DOMAIN calls : k[1] = "onLoadSuccess" /\ k[2].id = id}
                fail == {k \in DOMAIN calls : k[1] = "onLoadError" /\ k[2].id = id}
            IN  /\ outcome[<<"pdf", id>>].result = "resolved" =>
                    /\ fail = {}
                    /\ \E k \in succ : succ = {k} /\ calls[k] = 1 /\ k[2].kind = "pdf"
                /\ outcome[<<"pdf", id>>].result = "rejected" =>
                    /\ succ = {}
                    /\ \E k \in fail : fail = {k} /\ calls[k] = 1 /\ k[2].kind = "error"

(* C6: the Document passes to its children only the document loaded from the
   current file: whenever children are rendered, the pdf of the context is
   the one loaded for the current file prop. *)
C6_ChildrenGetCurrentPdf ==
    (life = "mounted" /\ rendered.content = "children") => rendered.pdf.of = file

(* C6, amended: once every dispatch has been rendered (no render is pending),
   the children are rendered only with a pdf loaded from the source that the
   source resolver holds, which was resolved from the current file. *)
C6_ChildrenGetCurrentPdfWhenSettled ==
    (life = "mounted" /\ ~Dirty /\ rendered.content = "children") =>
        /\ rendered.pdf.kind = "pdf"
        /\ rendered.pdf.of = file
        /\ sourceState.value.kind = "source"
        /\ sourceState.value.of = file

\* the children are rendered with the pdf of a second file, after the pdf of the
\* file before was loaded and reported
C6_Witness ==
    /\ life = "mounted"
    /\ ~Dirty
    /\ rendered.content = "children"
    /\ \E k \in DOMAIN calls : k[1] = "onLoadSuccess" /\ k[2].of # file

(* C7: the lifecycle order is load, then render, then cleanup: every render
   task of a PageCanvas was started while the Page's resolver held the page
   drawn (loaded); every page request was issued while the Document's pdf
   resolver held the document asked (loaded); every cancellation of a render
   task and every release of the canvas came after the PageCanvas instance
   had started a render task. *)
C7_LoadRenderCleanup ==
    /\ \A s \in kStarts : s.resolver.kind = "page" /\ s.resolver = s.page
    /\ \A q \in issued : q.resolver.kind = "pdf" /\ q.resolver = q.obj
    /\ \A k \in kCleanups : k.started

\* a page was requested and drawn, and the render task was cancelled and the
\* canvas released afterwards
C7_Witness ==
    /\ issued # {}
    /\ kStarts # {}
    /\ {k.what : k \in kCleanups} = {"cancel", "release"}

(* C8: if a file is provided, the props stay unchanged, the Document stays
   mounted and every promise settles, the pdf resolver eventually reaches
   loaded or errored and the matching host callback is invoked. *)
C8_Loaded ==
    \/ /\ pdfState.value.kind = "pdf"
       /\ HostCalled("onLoadSuccess", pdfState.value) > 0
    \/ /\ pdfState.value = False
       /\ HostCalled("onLoadError", pdfState.error) > 0

C8_EventuallyLoadedOrErrored ==
    <>[](life = "mounted" /\ file # NoFile) => <>[]C8_Loaded

\* what a resolver state says: nothing dispatched since the RESET, or the last
\* dispatch was a REJECT, or it was a RESOLVE
Shape(st) ==
    IF st.value.kind = "undefined" THEN "pending"
    ELSE IF st.value = False THEN "errored"
    ELSE "loaded"

\* what happened to a resource: setBy is the task whose outcome was dispatched
\* last since the RESET (0: none), inFlight tells whether the effect's current
\* task has yet to settle
Status(key, setBy, inFlight) ==
    IF setBy # 0
    THEN IF outcome[<<key, setBy>>].result = "resolved" THEN "loaded" ELSE "errored"
    ELSE IF inFlight THEN "loading"
    ELSE "not started"

SourceStatus ==
    Status("source", sourceSetBy, \E t \in sourceTasks : t.id = curSourceTask /\ ~t.cancelled)

PdfStatus ==
    Status("pdf", pdfSetBy, \E t \in loadTasks : t.id = curLoadTask /\ ~t.destroyed)

LayerStatus ==
    Status(comp, cSetBy.id, \E t \in cTasks : t.id = cCur /\ ~t.cancelled)

(* C9: the resolver state alone determines which of the four statuses (not
   started, loading, loaded, errored) the resource is in: two resolvers in
   the same state are in the same status. *)
C9_StateDeterminesStatus ==
    (life = "mounted" /\ sourceState = pdfState) => SourceStatus = PdfStatus

\* the state a resolver must be in after the dispatches recorded for it
Recorded(key, setBy) ==
    IF setBy = 0 THEN ResetState
    ELSE IF outcome[<<key, setBy>>].result = "resolved"
    THEN [value |-> outcome[<<key, setBy>>].v, error |-> Undefined]
    ELSE [value |-> False, error |-> outcome[<<key, setBy>>].v]

Tracks(st, key, setBy, status) ==
    /\ st = Recorded(key, setBy)
    /\ Shape(st) = "pending" <=> status \in {"not started", "loading"}
    /\ Shape(st) = "errored" <=> status = "errored"
    /\ Shape(st) = "loaded" <=> status = "loaded"

(* C9, amended: the resolver state tells three cases apart: value undefined
   when no outcome was dispatched since the last RESET (the resource is not
   started or loading: the state does not say which), value false and the
   error when the last outcome was a rejection (errored), the resolved value
   and no error otherwise (loaded). *)
C9_StateDeterminesOutcome ==
    /\ Tracks(sourceState, "source", sourceSetBy, SourceStatus)
    /\ Tracks(pdfState, "pdf", pdfSetBy, PdfStatus)
    /\ Tracks(cState, comp, cSetBy.id, LayerStatus)

\* the source is loaded and loading the document from it failed
C9_Witness ==
    /\ life = "mounted"
    /\ SourceStatus = "loaded"
    /\ PdfStatus = "errored"
    /\ sourceState.value.kind = "source"
    /\ pdfState.value = False

\* the resolver a host callback reports about
ResolverOf(name) ==
    CASE name \in {"onSourceSuccess", "onSourceError"} -> "source"
      [] name \in {"onLoadSuccess", "onLoadError"} -> "pdf"
      [] name \in {"Page.onLoadSuccess", "Page.onLoadError"} -> "Page"
      [] name \in {"Outline.onLoadSuccess", "Outline.onLoadError"} -> "Outline"
      [] name \in {"TextLayer.onGetTextSuccess", "TextLayer.onGetTextError"} -> "TextLayer"
      [] name \in {"PageSVG.onRenderSuccess", "PageSVG.onRenderError"} -> "PageSVG"
      [] OTHER -> "PageCanvas"

IsSuccessCallback(name) ==
    name \in {"onSourceSuccess", "onLoadSuccess", "Page.onLoadSuccess",
              "Outline.onLoadSuccess", "TextLayer.onGetTextSuccess",
              "PageSVG.onRenderSuccess", "PageCanvas.onRenderSuccess"}

\* the callback call k = <<name, argument>> reports an outcome that was dispatched
\* to the resolver of its component: RESOLVE(argument) for a success callback,
\* REJECT(argument) for an error callback
FollowsDispatch(k) ==
    \E o \in DOMAIN outcome :
        /\ o[1] = ResolverOf(k[1])
        /\ outcome[o] = Outcome(IsSuccessCallback(k[1]), k[2])

(* C10: in each of Document, Page, Outline, TextLayer, PageSVG and PageCanvas
   a success or error callback is invoked only after the outcome it reports
   was dispatched, as RESOLVE or REJECT, to a resolver of the component. *)
C10_CallbacksFollowDispatch ==
    \A k \in DOMAIN calls : FollowsDispatch(k)

(* C10, amended: in Document, Page, Outline, TextLayer and PageSVG a success
   or error callback is invoked only after the outcome it reports was
   dispatched, as RESOLVE or REJECT, to the resolver of the component;
   PageCanvas has no resolver and invokes onRenderSuccess and onRenderError
   from the handlers of the render task's promise. *)
C10_ResolverCallbacksFollowDispatch ==
    \A k \in DOMAIN calls : ResolverOf(k[1]) # "PageCanvas" => FollowsDispatch(k)

\* a Page reported its page to the host after the RESOLVE, and its PageCanvas
\* reported the render without any dispatch
C10_Witness ==
    /\ \E k \in DOMAIN calls : k[1] = "Page.onLoadSuccess" /\ FollowsDispatch(k)
    /\ \E k \in DOMAIN calls : k[1] = "PageCanvas.onRenderSuccess" /\ ~FollowsDispatch(k)

--------------------------------------------------------------------------
\* the source resolution whose outcome the callback call k = <<name, argument>>
\* reports: it resolved (ok) or rejected with the argument
ReportsResolution(k, ok) ==
    \E o \in DOMAIN outcome : o[1] = "source" /\ outcome[o] = Outcome(ok, k[2])

SourceCalls(name) == {k \in DOMAIN calls : k[1] = name}

\* onSourceError follows a failed resolution and carries its error; no resolution
\* is reported by both callbacks; every loading task was started after
\* onSourceSuccess for its source, and so were its onLoadSuccess / onLoadError
SourceCallbacksOrdered ==
    /\ \A k \in SourceCalls("onSourceError") :
            k[2].kind = "error" /\ ReportsResolution(k, FALSE)
    /\ \A k \in SourceCalls("onSourceSuccess") : \A j \in SourceCalls("onSourceError") :
            k[2].kind = "source" => k[2].id # j[2].id
    /\ \A t \in loadTasks : t.announced
    /\ \A k \in SourceCalls("onLoadSuccess") \cup SourceCalls("onLoadError") :
            \E j \in SourceCalls("onSourceSuccess") :
                j[2].kind = "source" /\ j[2].of = k[2].of

(* C11: onSourceSuccess is invoked only after a source resolution that
   resolved to a document source for the provided file, and
   onSourceError(error) only after a resolution that failed, with its error;
   for one resolution at most one of the two is invoked; onSourceSuccess for a
   file is invoked before the loading task for that file is started and
   before its onLoadSuccess or onLoadError. *)
C11_SourceSuccessFollowsSource ==
    /\ \A k \in SourceCalls("onSourceSuccess") :
            k[2].kind = "source" /\ ReportsResolution(k, TRUE)
    /\ SourceCallbacksOrdered

(* C11, amended: onSourceSuccess is invoked only after a source resolution
   that resolved, to a document source for the provided file or, when no file
   was given, to null; the rest as stated. *)
C11_SourceSuccessFollowsResolution ==
    /\ \A k \in SourceCalls("onSourceSuccess") :
            k[2].kind \in {"source", "null"} /\ ReportsResolution(k, TRUE)
    /\ SourceCallbacksOrdered

\* no file was given at first and that was reported as a success; the file
\* given then was resolved, announced to the host and loaded
C11_Witness ==
    /\ changes > 0
    /\ \E k \in SourceCalls("onSourceSuccess") : k[2] = Null
    /\ \E k \in SourceCalls("onSourceSuccess") : \E j \in SourceCalls("onLoadSuccess") :
            k[2].kind = "source" /\ j[2].of = k[2].of

--------------------------------------------------------------------------
\* the values the pdf resolver can hold, as renderContent tells them apart
PdfValues == {Undefined, Null, False, Val("pdf", 1, "url")}

\* the content the priority of C12 chooses
ContentByPriority(f, pdf) ==
    CASE f = NoFile -> "no-data"
      [] f # NoFile /\ pdf.kind \in {"undefined", "null"} -> "loading"
      [] f # NoFile /\ pdf.kind = "false" -> "error"
      [] OTHER -> "children"

(* C12: the Document renders exactly one of four contents, by priority: the
   no-data message when no file is given (whatever the pdf state), otherwise
   the loading message while the pdf state is undefined or null, otherwise
   the error message when it is false, otherwise its children, with the
   Document context (the pdf rendered) provided; children are never rendered
   while a message is shown. *)
C12_OneContentByPriority ==
    /\ \A f \in Files : \A pdf \in PdfValues :
            renderContent(f, pdf) = ContentByPriority(f, pdf)
    /\ life = "mounted" =>
            rendered.content = ContentByPriority(rendered.file, rendered.pdf)
    /\ cLife = "mounted" =>
            /\ life = "mounted"
            /\ rendered.content = "children"
            /\ cRendered.obj = rendered.pdf

\* the file was taken away after its pdf was loaded and the Page was rendered: the
\* Document shows the no-data message, and the Page is gone
C12_Witness ==
    /\ life = "mounted"
    /\ rendered.file = NoFile
    /\ rendered.pdf.kind = "pdf"
    /\ rendered.content = "no-data"
    /\ cLife = "new"
    /\ issued # {}

--------------------------------------------------------------------------
\* no page number can be derived from the props: pageNumber is null or 0
NoPageNumber(p) ==
    \/ p.pageNumber = 0
    \/ p.pageNumber = Absent /\ p.pageIndex = Absent

(* C13: the Page (given a document) renders exactly one of four contents, by
   priority: the no-data message when no page number can be derived, otherwise
   the loading message while the page state is undefined or null, otherwise
   the error message when the page state is false, otherwise the layers; the
   main layer is none for renderMode 'none', PageSVG for 'svg' and PageCanvas
   for 'canvas' or any other value; the text and the annotation layer are
   included exactly when renderTextLayer resp. renderAnnotationLayer is true,
   which they are by default. *)
C13_PageContentByPriority ==
    pShown.content \notin {"none", "thrown"} =>
        /\ pShown.content =
                CASE NoPageNumber(pProps) -> "no-data"
                  [] ~NoPageNumber(pProps) /\ pShown.page.kind \in {"undefined", "null"} ->
                        "loading"
                  [] ~NoPageNumber(pProps) /\ pShown.page.kind = "false" -> "error"
                  [] OTHER -> "layers"
        /\ pShown.content = "layers" =>
            /\ pShown.main =
                    CASE pProps.renderMode = "none" -> "none"
                      [] pProps.renderMode = "svg" -> "PageSVG"
                      [] OTHER -> "PageCanvas"
            /\ pShown.text <=> pProps.renderTextLayer \in {"true", "absent"}
            /\ pShown.annotations <=> pProps.renderAnnotationLayer \in {"true", "absent"}
        /\ pShown.content # "layers" =>
            pShown.main = "none" /\ ~pShown.text /\ ~pShown.annotations

\* a Page given pageIndex 0 and an unknown renderMode, its page loaded: PageCanvas
\* is the main layer, the text layer is switched off, the annotation layer is there
\* by default
C13_Witness ==
    /\ pProps.pageNumber = Absent
    /\ pProps.pageIndex = 0
    /\ pProps.renderMode = "other"
    /\ pProps.renderTextLayer = "false"
    /\ pProps.renderAnnotationLayer = "absent"
    /\ state.value \in TestValues
    /\ pShown = [content |-> "layers", main |-> "PageCanvas", text |-> FALSE,
                 annotations |-> TRUE, page |-> state.value]

--------------------------------------------------------------------------
RenderErrorCalls ==
    {k \in DOMAIN calls : k[1] \in {"PageCanvas.onRenderError", "PageSVG.onRenderError"}}

\* PageCanvas: onRenderError is invoked once for every render task that failed and
\* for no other; onRenderSuccess once for every render task that completed
CanvasRendersReported ==
    /\ \A s \in kSettled :
            HostCalled("PageCanvas.onRenderError", s.error) =
                (IF s.result = "failed" THEN 1 ELSE 0)
    /\ \A k \in DOMAIN calls :
            /\ k[1] = "PageCanvas.onRenderError" =>
                    \E s \in kSettled : s.result = "failed" /\ s.error = k[2]
            /\ k[1] = "PageCanvas.onRenderSuccess" =>
                    calls[k] = Cardinality({s \in kSettled :
                                                s.result = "completed" /\ s.page = k[2]})

\* the outcomes dispatched to the svg resolver
SVGOutcomes == {o \in DOMAIN outcome : o[1] = "PageSVG"}

\* PageSVG: onRenderSuccess follows a RESOLVE of the svg it reports
SVGSuccessReported ==
    \A k \in DOMAIN calls :
        k[1] = "PageSVG.onRenderSuccess" =>
            \E o \in SVGOutcomes : outcome[o] = Outcome(TRUE, k[2])

(* C14: a page render that fails because it was cancelled is not reported: in
   PageCanvas and PageSVG onRenderError is never invoked with a cancellation
   exception, while any other render failure invokes onRenderError exactly
   once with the error (in PageSVG: once the REJECT has been rendered), and
   onRenderSuccess is invoked only for a render that completed. *)
C14_CancelledNotReported ==
    /\ \A k \in RenderErrorCalls : ~isCancelException(k[2])
    /\ CanvasRendersReported
    /\ SVGSuccessReported
    /\ (comp = "PageSVG" /\ cLife = "mounted" /\ ~LayerDirty) =>
            \A o \in SVGOutcomes :
                (outcome[o].result = "rejected" /\ o \notin late) =>
                    HostCalled("PageSVG.onRenderError", outcome[o].v) =
                        (IF isCancelException(outcome[o].v) THEN 0 ELSE 1)

(* C14, amended: onRenderError is never invoked with a cancellation exception;
   in PageCanvas any other failure of a render task invokes it exactly once
   with the error; in PageSVG it is invoked at most once for a failure and
   only with the error of a REJECT dispatched before (a failure is not
   reported when the svg resolver was false at the render before it, too);
   onRenderSuccess is invoked only for a render that completed. *)
C14_CancelledNeverReported ==
    /\ \A k \in RenderErrorCalls : ~isCancelException(k[2])
    /\ CanvasRendersReported
    /\ SVGSuccessReported
    /\ \A k \in DOMAIN calls :
            k[1] = "PageSVG.onRenderError" =>
                /\ calls[k] = 1
                /\ \E o \in SVGOutcomes : outcome[o] = Outcome(FALSE, k[2])

\* a render task was cancelled and its rejection dropped, another failed and was
\* reported, and one completed
C14_Witness ==
    /\ \E s \in kSettled : s.result = "cancelled" /\ isCancelException(s.error)
    /\ \E s \in kSettled :
            s.result = "failed" /\ HostCalled("PageCanvas.onRenderError", s.error) = 1
    /\ \A k \in RenderErrorCalls : ~isCancelException(k[2])

--------------------------------------------------------------------------
(* C15: following an internal link does exactly one of three things, by
   priority: if the Document was given onItemClick, it is called with {dest,
   pageIndex, pageNumber} and no page is scrolled; otherwise, if a page
   element is registered at pageIndex, that element is scrolled into view;
   otherwise only a warning is issued and nothing is scrolled. *)
C15_LinkDoesOneThing ==
    linked # NoLink =>
        /\ onItemClick =>
                /\ linked.clicked = [dest |-> linked.dest, pageIndex |-> linked.pageIndex,
                                     pageNumber |-> linked.pageNumber]
                /\ linked.scrolled = 0
                /\ ~linked.warned
        /\ (~onItemClick /\ linked.registered # 0) =>
                /\ linked.clicked = NoArgs
                /\ linked.scrolled = linked.registered
                /\ ~linked.warned
        /\ (~onItemClick /\ linked.registered = 0) =>
                /\ linked.clicked = NoArgs
                /\ linked.scrolled = 0
                /\ linked.warned

\* a link to a registered page was followed in a Document given onItemClick: the
\* callback took it and the page was not scrolled
C15_Witness ==
    /\ onItemClick
    /\ linked.registered # 0
    /\ linked.clicked # NoArgs
    /\ linked.scrolled = 0

--------------------------------------------------------------------------
\* the resolution of the invalid file, the current one, has settled
InvalidFileSettled == life = "mounted" /\ file = "bad" /\ sourceSetBy # 0

\* resolving an invalid file rejects, the REJECT leaves value false and the error
\* in the source resolver, and no loading task is started for it
InvalidFileRejected ==
    /\ \A t \in loadTasks : t.source.of # "bad"
    /\ \A o \in DOMAIN outcome :
            (o[1] = "source" /\ outcome[o].v.of = "bad") =>
                outcome[o] = Outcome(FALSE, Val("error", o[2], "bad"))
    /\ InvalidFileSettled =>
            /\ sourceState = [value |-> False, error |-> Val("error", sourceSetBy, "bad")]
            /\ <<"source", sourceSetBy>> \in DOMAIN outcome
    /\ (InvalidFileSettled /\ ~Dirty) =>
            /\ curLoadTask = 0
            /\ rendered.content \in {"loading", "error"}

(* C16: an invalid file parameter is an error outcome, not a crash: source
   resolution rejects, REJECT is dispatched to the source resolver (value
   false, error set), onSourceError is invoked with that error (once the
   REJECT has been rendered), and no loading task is started. *)
C16_InvalidFileReported ==
    /\ InvalidFileRejected
    /\ (InvalidFileSettled /\ ~Dirty) => HostCalled("onSourceError", sourceState.error) = 1

(* C16, amended: as C16, but onSourceError is invoked with the error at most
   once, and is not invoked when the resolution of the file before had failed
   too and was reported: the source resolver was false at the render before
   and is false again. *)
C16_InvalidFileRejectedAndReportedOnce ==
    /\ InvalidFileRejected
    /\ (InvalidFileSettled /\ ~Dirty) =>
            /\ HostCalled("onSourceError", sourceState.error) <= 1
            /\ HostCalled("onSourceError", sourceState.error) = 0 =>
                    \E k \in SourceCalls("onSourceError") : k[2].id < sourceSetBy

\* an invalid file was passed after a file that was loaded: its resolution was
\* rejected and reported, and nothing is being loaded
C16_Witness ==
    /\ InvalidFileSettled
    /\ ~Dirty
    /\ sourceState.value = False
    /\ HostCalled("onSourceError", sourceState.error) = 1
    /\ curLoadTask = 0
    /\ SourceCalls("onLoadSuccess") # {}

--------------------------------------------------------------------------
\* State<T>: {value: false, error: Error}, or a value other than false and no error
ErrorIffFalse(st) ==
    /\ st.value = False <=> st.error # Undefined
    /\ st.error # Undefined => st.error.kind \in {"error", "aborted", "cancel"}

(* C17: in every reachable state of every resolver, error is defined if and
   only if value is false: a state with value false carries the error that
   caused it, so that the early returns of onLoadError / onSourceError at a
   missing error are never taken (no render read value false without an
   error), and a state with a loaded or undefined value carries no error. *)
C17_ErrorIffValueFalse ==
    /\ ErrorIffFalse(sourceState)
    /\ ErrorIffFalse(pdfState)
    /\ ErrorIffFalse(cState)
    /\ ErrorIffFalse([value |-> rendered.source, error |-> rendered.sourceError])
    /\ ErrorIffFalse([value |-> rendered.pdf, error |-> rendered.pdfError])
    /\ ErrorIffFalse([value |-> cRendered.value, error |-> cRendered.error])
    /\ sourceState.value = False =>
            outcome[<<"source", sourceSetBy>>] = Outcome(FALSE, sourceState.error)
    /\ pdfState.value = False => outcome[<<"pdf", pdfSetBy>>] = Outcome(FALSE, pdfState.error)
    /\ cState.value = False => outcome[<<comp, cSetBy.id>>] = Outcome(FALSE, cState.error)

\* the source resolver went from an error through RESET to a source, without an
\* error left, and the pdf resolver holds false and the error that was reported
C17_Witness ==
    /\ life = "mounted"
    /\ SourceCalls("onSourceError") # {}
    /\ sourceState.value.kind = "source"
    /\ sourceState.error = Undefined
    /\ pdfState.value = False
    /\ pdfState.error.kind = "error"
    /\ HostCalled("onLoadError", pdfState.error) = 1

--------------------------------------------------------------------------
\* the Document was mounted without a file and has not been given one since: the
\* resolution started at the mount is the current one
NeverGivenFile == life = "mounted" /\ file = NoFile /\ curSourceTask = 1

LoadCalls == SourceCalls("onLoadSuccess") \cup SourceCalls("onLoadError")

(* C18: when no file is given, source resolution resolves to null, no loading
   task is ever started for it (getDocument is not called), the pdf resolver
   stays in the reset state, neither onLoadSuccess nor onLoadError is
   invoked, and the Document shows the no-data message. *)
C18_NoFileNoLoad ==
    /\ \A o \in DOMAIN outcome :
            (o[1] = "source" /\ outcome[o].v.of = NoFile) => outcome[o] = Outcome(TRUE, Null)
    /\ \A t \in loadTasks : t.source.kind = "source" /\ t.source.of # NoFile
    /\ \A k \in LoadCalls : k[2].of # NoFile
    /\ (life = "mounted" /\ file = NoFile) =>
            /\ rendered.content = "no-data"
            /\ sourceState.value \in {Undefined, Null}
            /\ sourceSetBy # 0 => sourceState = [value |-> Null, error |-> Undefined]
    /\ NeverGivenFile =>
            /\ loadTasks = {}
            /\ curLoadTask = 0
            /\ pdfState = ResetState
            /\ pdfSetBy = 0
            /\ LoadCalls = {}

\* a Document without a file whose options changed after the source had resolved
\* to null: loadDocument ran again and started nothing
C18_Witness ==
    /\ NeverGivenFile
    /\ options > 0
    /\ ~Dirty
    /\ sourceState.value = Null
    /\ rendered.source = Null
    /\ rendered.content = "no-data"
    /\ pdfState = ResetState
    /\ HostCalled("onSourceSuccess", Null) = 1

--------------------------------------------------------------------------
(* C19: PageSVG cancellation covers the whole SVG pipeline: after the page or
   the viewport of a PageSVG changed, or the PageSVG unmounted, no SVG element
   and no error produced for the earlier inputs is dispatched to the svg
   resolver, also when the operator list had been obtained and only the
   getSVG conversion was in flight at the change; what the svg resolver holds
   was produced for the current inputs. *)
C19_SVGPipelineCancelled ==
    comp = "PageSVG" =>
        /\ \A e \in late : e[1] # "PageSVG"
        /\ cSetBy.id # 0 =>
            /\ cSetBy.id = cCur
            /\ cSetBy.obj = cInput.obj
            /\ cSetBy.n = cInput.n

====
